---- MODULE Spec2Model ----
(***************************************************************************)
(* The `latest` crate: a scalar latest-value channel (src/src/value.rs)    *)
(* and a keyed latest-value channel (src/src/map.rs).  One channel of      *)
(* either variant is created by channel(); the Receiver and the Sender     *)
(* clones are each driven by their own thread.  Every handler is cut at    *)
(* the points where another thread can interleave: before the liveness     *)
(* check (keyed), before the lock, inside the critical section.            *)
(***************************************************************************)
EXTENDS Integers, Sequences, FiniteSets, TLC

\* ------------------------------------------------------------------ bounds
\* Number of send/try_send calls made in one behaviour (each call moves a
\* fresh value, identified by its call number, into the channel).
MaxSends == 3

\* The keys of the keyed variant, the handles.  The value a send moves into the
\* channel is a fresh one each time, named by the number of the call (the code
\* never looks inside a T or V).
Keys == {"a", "b"}
Senders == {"s1", "s2"}
Rx == "rx"
Handles == Senders \cup {Rx}
NoOne == "-"
NoKey == "-"

VARIABLES
    variant,      \* "value" (value.rs) or "map" (map.rs): which channel() was called
    slot,         \* value.rs: the Option<T> inside the Mutex
    hmap,         \* map.rs: the HashMap<K, Option<V>> inside the Mutex
    holder,       \* the handle whose operation holds the MutexGuard, or NoOne
    poisoned,     \* the Mutex's poison flag
    strong,       \* strong count of the Arc<Mutex<..>>
    outer,        \* strong count of the Senders' Arc<UnsafeCell<Arc<Mutex<..>>>>
    alive,        \* the handles that exist (not yet dropped)
    pc,           \* per handle: where its current call stands
    op,           \* per handle: the call in progress and its arguments
    iter,         \* map.rs recv: keys iter_mut() has still to visit
    batch,        \* map.rs recv: the Vec collected so far
    ret,          \* what the step just taken returned to its caller (NoRet if nothing)
    \* ---- history variables, read by the properties only
    nextId,       \* number of the next send/try_send call
    run,          \* values stored by successful sends since the last receive took the lock
    acq,          \* value.rs: sends in the order they took the lock since the last receive did
    overwritten,  \* ids of values replaced by a later send while still pending
    delivered,    \* per id: how many times a receive returned it
    quiet,        \* a receive has returned Ok and no send has succeeded since
    rsnap         \* what the receive in progress found when it took the lock

hist == <<nextId, run, acq, overwritten, delivered, quiet, rsnap>>
vars == <<variant, slot, hmap, holder, poisoned, strong, outer, alive, pc, op,
          iter, batch, ret, hist>>

\* ------------------------------------------------------------------ values
\* Option<T>: None, or Some(t).  A T is two machine words wide; writing it is
\* two stores (lo, then hi), so a reader that is not excluded can see a mixture.
None == [tag |-> "None"]
Item(k, n) == [key |-> k, id |-> n]
Garbage == Item(NoKey, 0)
Some(t) == [tag |-> "Some", lo |-> t, hi |-> t]
IsSome(s) == s.tag = "Some"
Whole(s) == IsSome(s) /\ s.lo = s.hi

\* `*guard = Some(t)`: first store (tag and low word), second store (high word).
StoreLo(s, t) == [tag |-> "Some", lo |-> t, hi |-> IF IsSome(s) THEN s.hi ELSE Garbage]
\* Faulty variant: the second store is lost, the high word keeps what it held.
StoreHiLost(s, t) == s
StoreHi(s, t) == [tag |-> "Some", lo |-> s.lo, hi |-> t]

SendOps == {"send", "try_send"}
RecvOps == {"recv", "try_recv"}
TryOps == {"try_send", "try_recv"}

\* A call: its name and arguments, and the channel's condition when it was made.
NoOp == [name |-> "none", key |-> NoKey, id |-> 0,
         rxGone |-> FALSE, noSenders |-> FALSE, poisoned |-> FALSE]
Call(o, k, n) == [name |-> o, key |-> k, id |-> n,
                  rxGone |-> Rx \notin alive,
                  noSenders |-> alive \cap Senders = {},
                  poisoned |-> poisoned]
\* Faulty variant: what is stored is not the caller's value.
ArgFabricated(h) == Item(op[h].key, 0)
Arg(h) == Item(op[h].key, op[h].id)

\* What a receive found at the lock.
NoSnap == [pre |-> << >>, acqd |-> << >>, found |-> None]
Store == IF variant = "value" THEN slot ELSE hmap
Now == [pre |-> run, acqd |-> acq, found |-> Store]

\* A return: who returned from which call (call), the result (tag, and item:
\* the value handed back by a failed send, got: the Option a scalar receive took,
\* vec: the Vec a keyed receive collected), and for a receive how it went
\* ("took" the lock, found it "busy", found it "poison"ed), what it found and
\* what it left.
NoRet == [h |-> NoOne, call |-> NoOp, tag |-> "none", item |-> Garbage, got |-> None,
          vec |-> << >>, how |-> "none", snap |-> NoSnap, after |-> None, quiet |-> FALSE]
Result(h, tag) == [NoRet EXCEPT !.h = h, !.call = op[h], !.tag = tag]

\* Faulty variant: a send that finds an unread value pending is refused.
SendOkUnlessPending(h) == Result(h, IF IsSome(slot) THEN "WouldBlock" ELSE "Ok")
\* Results, named as the code names them.
SendOk(h) == Result(h, "Ok")
\* value.rs SendError(t) / TrySendError::ChannelClosed(t); map.rs SendError(k, v) / ...
SendClosed(h) ==
    [Result(h, IF op[h].name = "send" THEN "SendError" ELSE "ChannelClosed")
        EXCEPT !.item = Arg(h)]
\* Faulty variant: WouldBlock without the value (the value is dropped).
SendWouldBlockEmpty(h) == Result(h, "WouldBlock")
SendWouldBlock(h) == [Result(h, "WouldBlock") EXCEPT !.item = Arg(h)]
\* value.rs RecvError::ChannelClosed / TryRecvError::ChannelClosed;
\* map.rs RecvError (a unit struct) / TryRecvError::ChannelClosed
RecvClosed(h) ==
    Result(h, IF variant = "map" /\ op[h].name = "recv" THEN "RecvError" ELSE "ChannelClosed")
RecvWouldBlock(h) == Result(h, "WouldBlock")
RecvNoNewValue(h) == Result(h, "NoNewValue")
RecvOkValue(h, s) == [Result(h, "Ok") EXCEPT !.got = s]
RecvOkBatch(h, b) == [Result(h, "Ok") EXCEPT !.vec = b]
Panicked(h) == Result(h, "panic")

ClosedTags == {"SendError", "ChannelClosed", "RecvError"}

\* ------------------------------------------------------------------ channel()
\* value.rs channel / map.rs channel: arc (held by the Receiver) and arc.clone()
\* (held by the cell all Senders share); one Sender.
Init ==
    /\ variant \in {"value", "map"}
    /\ slot = None
    /\ hmap = << >>
    /\ holder = NoOne
    /\ poisoned = FALSE
    /\ strong = 2
    /\ outer = 1
    /\ alive = {"s1", Rx}
    /\ pc = [h \in Handles |-> "idle"]
    /\ op = [h \in Handles |-> NoOp]
    /\ iter = {}
    /\ batch = << >>
    /\ ret = NoRet
    /\ nextId = 1
    /\ run = << >>
    /\ acq = << >>
    /\ overwritten = {}
    /\ delivered = [n \in 0..MaxSends |-> 0]
    /\ quiet = FALSE
    /\ rsnap = NoSnap

\* The call of h returns r.
Return(h, r) ==
    /\ pc' = [pc EXCEPT ![h] = "idle"]
    /\ op' = [op EXCEPT ![h] = NoOp]
    /\ ret' = r

\* A receive returns r, having found `snap` (at the lock, if it took it).
Received(h, how, snap, r, after) ==
    /\ Return(h, [r EXCEPT !.how = how, !.snap = snap, !.after = after, !.quiet = quiet])
    /\ quiet' = (quiet \/ (r.tag = "Ok" /\ (variant = "value" \/ r.vec # << >>)))
    /\ rsnap' = NoSnap

\* ------------------------------------------------------------------ handles
\* Faulty variant: clone waits for the lock to be free.
CloneLocked(h, n) ==
    /\ h \in alive \cap Senders /\ pc[h] = "idle"
    /\ n \in Senders \ alive
    /\ holder = NoOne
    /\ alive' = alive \cup {n}
    /\ outer' = outer + 1
    /\ ret' = NoRet
    /\ UNCHANGED <<variant, slot, hmap, holder, poisoned, strong, pc, op, iter, batch, hist>>
\* Clone for Sender: Arc::clone of the outer Arc; touches neither lock nor store.
Clone(h, n) ==
    /\ h \in alive \cap Senders /\ pc[h] = "idle"
    /\ n \in Senders \ alive
    /\ alive' = alive \cup {n}
    /\ outer' = outer + 1
    /\ ret' = NoRet
    /\ UNCHANGED <<variant, slot, hmap, holder, poisoned, strong, pc, op, iter, batch, hist>>

\* Dropping a Sender releases the outer Arc; the last one drops the shared cell
\* and with it one strong reference to the Mutex.
DropSender(h) ==
    /\ h \in alive \cap Senders /\ pc[h] = "idle"
    /\ alive' = alive \ {h}
    /\ outer' = outer - 1
    /\ strong' = IF outer = 1 THEN strong - 1 ELSE strong
    /\ ret' = NoRet
    /\ UNCHANGED <<variant, slot, hmap, holder, poisoned, pc, op, iter, batch, hist>>

\* Dropping the Receiver releases its strong reference to the Mutex.
DropReceiver ==
    /\ Rx \in alive /\ pc[Rx] = "idle"
    /\ alive' = alive \ {Rx}
    /\ strong' = strong - 1
    /\ ret' = NoRet
    /\ UNCHANGED <<variant, slot, hmap, holder, poisoned, outer, pc, op, iter, batch, hist>>

\* ------------------------------------------------------------------ calls
\* Faulty variant: the upgrade fails when the caller's is the only reference
\* left (the counterpart is gone).
UpgradeIfShared(n) == n > 1
\* Weak::upgrade: a new strong reference, unless the count has reached zero.
Upgrade(n) == n > 0

\* Entering an operation.  value.rs goes straight to the lock (its liveness
\* check is commented out).  map.rs first runs
\* `(*data_ptr).downgrade().upgrade()`: Some(data) takes a strong reference,
\* None returns ChannelClosed (handing back key and value, for a send).
Enter(h, c) ==
    IF variant = "value"
      THEN /\ pc' = [pc EXCEPT ![h] = "lock"]
           /\ op' = [op EXCEPT ![h] = c]
           /\ ret' = NoRet
           /\ UNCHANGED <<strong, quiet, rsnap>>
      ELSE IF Upgrade(strong)
        THEN /\ strong' = strong + 1
             /\ pc' = [pc EXCEPT ![h] = "assign"]
             /\ op' = [op EXCEPT ![h] = c]
             /\ ret' = NoRet
             /\ UNCHANGED <<quiet, rsnap>>
        ELSE /\ UNCHANGED <<strong, pc, op>>
             /\ IF c.name \in SendOps
                  THEN /\ ret' = [NoRet EXCEPT !.h = h, !.call = c, !.item = Item(c.key, c.id),
                                    !.tag = IF c.name = "send" THEN "SendError"
                                                               ELSE "ChannelClosed"]
                       /\ UNCHANGED <<quiet, rsnap>>
                  ELSE /\ ret' = [NoRet EXCEPT !.h = h, !.call = c, !.how = "closed",
                                    !.snap = Now, !.after = Store, !.quiet = quiet,
                                    !.tag = IF c.name = "recv" THEN "RecvError"
                                                               ELSE "ChannelClosed"]
                       /\ UNCHANGED <<quiet, rsnap>>

\* Sender::send(t) / try_send(t) (value.rs), send(key, value) / try_send (map.rs)
SendCall(h, o, k) ==
    /\ h \in alive \cap Senders /\ pc[h] = "idle"
    /\ (k = NoKey) = (variant = "value")
    /\ nextId <= MaxSends
    /\ nextId' = nextId + 1
    /\ Enter(h, Call(o, k, nextId))
    /\ UNCHANGED <<variant, slot, hmap, holder, poisoned, outer, alive, iter,
                   batch, run, acq, overwritten, delivered>>

\* Receiver::recv() / try_recv()
RecvCall(o) ==
    /\ Rx \in alive /\ pc[Rx] = "idle"
    /\ Enter(Rx, Call(o, NoKey, 0))
    /\ UNCHANGED <<variant, slot, hmap, holder, poisoned, outer, alive, iter,
                   batch, nextId, run, acq, overwritten, delivered>>

\* ------------------------------------------------------------------ the Mutex
\* Faulty variant: a lock that excludes nobody.
FreeAlways == TRUE
\* std::sync::Mutex: the lock can be taken when no guard is out.
Free == holder = NoOne

\* Faulty variant: the poison is ignored (as with PoisonError::into_inner).
AfterLockIgnore(p) == "crit"
\* The match on the result of lock()/try_lock(): Ok(guard) enters the critical
\* section, Err (the Mutex is poisoned) the error arm.
AfterLock(p) == IF p THEN "perr" ELSE "crit"

\* The history entry of a send taking the lock: who, what, and the calls of
\* other Senders that were at the lock at that moment (concurrent sends).
Acquired(h) == [h |-> h, item |-> Arg(h),
                waiting |-> {op[g].id : g \in {x \in Senders \ {h} : pc[x] = "lock"}}]

\* lock()/try_lock() taking the lock.  A poisoned Mutex is still locked: the
\* guard comes back inside the PoisonError and is held until the error is dropped.
TakeLock(h) ==
    /\ holder' = h
    /\ pc' = [pc EXCEPT ![h] = AfterLock(poisoned)]
    /\ ret' = NoRet
    /\ IF AfterLock(poisoned) = "perr"
         THEN UNCHANGED <<run, acq, rsnap, iter, batch>>
         ELSE IF op[h].name \in SendOps
           THEN /\ acq' = IF variant = "value" THEN Append(acq, Acquired(h)) ELSE acq
                /\ UNCHANGED <<run, rsnap, iter, batch>>
           ELSE /\ rsnap' = Now
                /\ run' = << >>
                /\ acq' = << >>
                /\ iter' = IF variant = "map" THEN DOMAIN hmap ELSE iter
                /\ batch' = << >>
    /\ UNCHANGED <<variant, slot, hmap, poisoned, strong, outer, alive, op,
                   nextId, overwritten, delivered, quiet>>

\* send / recv: `(*data_ptr).lock()` waits until the lock is free.
Lock(h) ==
    /\ h \in alive /\ pc[h] = "lock"
    /\ op[h].name \in {"send", "recv"}
    /\ Free
    /\ TakeLock(h)

\* try_send / try_recv: `(*data_ptr).try_lock()` never waits; a lock that is
\* held gives TryLockError::WouldBlock, poisoned or not.
WouldBlock(h) ==
    /\ IF op[h].name = "try_send"
         THEN /\ Return(h, SendWouldBlock(h))
              /\ UNCHANGED <<quiet, rsnap>>
         ELSE Received(h, "busy", Now, RecvWouldBlock(h), Store)
    /\ UNCHANGED <<variant, slot, hmap, holder, poisoned, strong, outer, alive,
                   iter, batch, nextId, run, acq, overwritten, delivered>>

TryLock(h) ==
    /\ h \in alive /\ pc[h] = "lock"
    /\ op[h].name \in TryOps
    /\ IF Free THEN TakeLock(h) ELSE WouldBlock(h)

\* The Err arm of the match on lock()/try_lock(): Poisoned gives ChannelClosed
\* (with the value handed back, for a send); the guard inside the error is dropped.
PoisonErr(h) ==
    /\ h \in alive /\ pc[h] = "perr"
    /\ holder' = NoOne
    /\ IF op[h].name \in SendOps
         THEN /\ Return(h, SendClosed(h))
              /\ UNCHANGED <<quiet, rsnap>>
         ELSE Received(h, "poison", Now, RecvClosed(h), Store)
    /\ UNCHANGED <<variant, slot, hmap, poisoned, strong, outer, alive, iter, batch,
                   nextId, run, acq, overwritten, delivered>>

\* Faulty variant: the unwinding holder poisons the Mutex but keeps it locked.
UnwindHolding(h) ==
    /\ poisoned' = TRUE
    /\ holder' = holder
    /\ Return(h, Panicked(h))
\* A holder unwinds inside the critical section: the guard's drop poisons the
\* Mutex and releases it.  The caller may catch the unwind and go on, or drop
\* its handle.
Unwind(h) ==
    /\ poisoned' = TRUE
    /\ holder' = NoOne
    /\ Return(h, Panicked(h))

\* ------------------------------------------------------------------ value.rs
\* Sender::send / try_send, Ok arm: `*guard = Some(t)`.  The old value is
\* dropped first (T's destructor is the caller's code and may panic), then the
\* new value is stored.
ValueSendStore(h) ==
    /\ variant = "value" /\ h \in alive /\ pc[h] = "crit" /\ op[h].name \in SendOps
    /\ slot' = StoreLo(slot, Arg(h))
    /\ pc' = [pc EXCEPT ![h] = "store2"]
    /\ ret' = NoRet
    /\ UNCHANGED <<variant, hmap, holder, poisoned, strong, outer, alive, op, iter,
                   batch, hist>>

\* The history of a successful send of t: it replaces what was pending (under
\* the same key).
Stored(t) ==
    /\ run' = Append(run, t)
    /\ overwritten' = overwritten \cup {run[i].id : i \in {j \in DOMAIN run : run[j].key = t.key}}
    /\ quiet' = FALSE

ValueSendDone(h) ==
    /\ variant = "value" /\ h \in alive /\ pc[h] = "store2"
    /\ slot' = StoreHi(slot, Arg(h))
    /\ holder' = NoOne
    /\ Return(h, SendOk(h))
    /\ Stored(Arg(h))
    /\ UNCHANGED <<variant, hmap, poisoned, strong, outer, alive, iter, batch,
                   nextId, acq, delivered, rsnap>>

ValueSendPanic(h) ==
    /\ variant = "value" /\ h \in alive /\ pc[h] = "crit" /\ op[h].name \in SendOps
    /\ IsSome(slot)
    /\ Unwind(h)
    /\ UNCHANGED <<variant, slot, hmap, strong, outer, alive, iter, batch, hist>>

\* Faulty variant: the value is read but left in place (as_ref instead of take).
TakeKeep(s) == s
\* Option::take: the stored Option is moved out and None left in its place.
Take(s) == None

\* Receiver::recv / try_recv, Ok arm: `guard.take()`, Some(t) => Ok(t),
\* None => Err(NoNewValue).
ValueRecvTake(h) ==
    /\ variant = "value" /\ h \in alive /\ pc[h] = "crit" /\ op[h].name \in RecvOps
    /\ slot' = Take(slot)
    /\ holder' = NoOne
    /\ Received(h, "took", rsnap,
                IF IsSome(slot) THEN RecvOkValue(h, slot) ELSE RecvNoNewValue(h), slot')
    /\ delivered' = IF IsSome(slot) THEN [delivered EXCEPT ![slot.lo.id] = @ + 1]
                                    ELSE delivered
    /\ UNCHANGED <<variant, hmap, poisoned, strong, outer, alive, iter, batch,
                   nextId, run, acq, overwritten>>

\* ------------------------------------------------------------------ map.rs
\* Faulty variant: the re-assignment releases a reference too many.
AssignDropsBoth(h) ==
    /\ variant = "map" /\ h \in alive /\ pc[h] = "assign"
    /\ strong' = strong - 2
    /\ pc' = [pc EXCEPT ![h] = "lock"]
    /\ ret' = NoRet
    /\ UNCHANGED <<variant, slot, hmap, holder, poisoned, outer, alive, op, iter, batch,
                   hist>>
\* The liveness check, second half: `*data_ptr = data` drops the Arc that was
\* in the cell and puts the upgraded one (the same allocation) in its place.
Assign(h) ==
    /\ variant = "map" /\ h \in alive /\ pc[h] = "assign"
    /\ strong' = strong - 1
    /\ pc' = [pc EXCEPT ![h] = "lock"]
    /\ ret' = NoRet
    /\ UNCHANGED <<variant, slot, hmap, holder, poisoned, outer, alive, op, iter, batch,
                   hist>>

\* Faulty variant: the map is replaced by one holding the new entry alone.
InsertAlone(m, k, t) == [j \in {k} |-> Some(t)]
\* HashMap::insert(key, Some(value)): the entry for key is created or replaced.
Insert(m, k, t) == [j \in DOMAIN m \cup {k} |-> IF j = k THEN Some(t) ELSE m[j]]

\* Sender::send / try_send, Ok arm: `guard.insert(key, Some(value)); Ok(())`.
MapSendInsert(h) ==
    /\ variant = "map" /\ h \in alive /\ pc[h] = "crit" /\ op[h].name \in SendOps
    /\ hmap' = Insert(hmap, op[h].key, Arg(h))
    /\ holder' = NoOne
    /\ Return(h, SendOk(h))
    /\ Stored(Arg(h))
    /\ UNCHANGED <<variant, slot, poisoned, strong, outer, alive, iter, batch,
                   nextId, acq, delivered, rsnap>>

\* insert hashes and compares the key: K's code, which may panic.
MapSendPanic(h) ==
    /\ variant = "map" /\ h \in alive /\ pc[h] = "crit" /\ op[h].name \in SendOps
    /\ Unwind(h)
    /\ UNCHANGED <<variant, slot, hmap, strong, outer, alive, iter, batch, hist>>

\* Faulty variant: the entry is read but not taken.
VisitKeep(m, k) == m
\* Faulty variant: the entry is removed from the map when its value is taken.
VisitRemove(m, k) == [j \in DOMAIN m \ {k} |-> m[j]]
\* Faulty variant: the batch keeps the first pending entry only.
CollectedFirst(b, m, k) == IF IsSome(m[k]) /\ b = << >> THEN Append(b, <<k, m[k].lo>>) ELSE b
\* The filter_map closure on one entry of iter_mut(): a pending entry gives
\* (key.clone(), value.take().unwrap()), an entry that is None gives nothing.
Visit(m, k) == [m EXCEPT ![k] = None]
Collected(b, m, k) == IF IsSome(m[k]) THEN Append(b, <<k, m[k].lo>>) ELSE b

\* Receiver::recv / try_recv, Ok arm, one entry (HashMap's order is arbitrary).
MapRecvVisit(h, k) ==
    /\ variant = "map" /\ h \in alive /\ pc[h] = "crit" /\ op[h].name \in RecvOps
    /\ k \in iter
    /\ batch' = Collected(batch, hmap, k)
    /\ hmap' = Visit(hmap, k)
    /\ iter' = iter \ {k}
    /\ ret' = NoRet
    /\ UNCHANGED <<variant, slot, holder, poisoned, strong, outer, alive, pc, op, hist>>

\* key.clone() of a pending entry is K's code, which may panic.
MapRecvPanic(h) ==
    /\ variant = "map" /\ h \in alive /\ pc[h] = "crit" /\ op[h].name \in RecvOps
    /\ \E k \in iter : IsSome(hmap[k])
    /\ Unwind(h)
    /\ rsnap' = NoSnap
    /\ UNCHANGED <<variant, slot, hmap, strong, outer, alive, iter, batch,
                   nextId, run, acq, overwritten, delivered, quiet>>

\* The iterator is exhausted: collect() returns the Vec, the guard is dropped.
MapRecvCollect(h) ==
    /\ variant = "map" /\ h \in alive /\ pc[h] = "crit" /\ op[h].name \in RecvOps
    /\ iter = {}
    /\ holder' = NoOne
    /\ Received(h, "took", rsnap, RecvOkBatch(h, batch), hmap)
    /\ delivered' = [n \in DOMAIN delivered |->
                       delivered[n] + Cardinality({i \in DOMAIN batch : batch[i][2].id = n})]
    /\ UNCHANGED <<variant, slot, hmap, poisoned, strong, outer, alive, iter, batch,
                   nextId, run, acq, overwritten>>

\* ------------------------------------------------------------------ the program
NextValue ==
    \/ \E h \in Senders : ValueSendStore(h)
    \/ \E h \in Senders : ValueSendDone(h)
    \/ \E h \in Senders : ValueSendPanic(h)
    \/ ValueRecvTake(Rx)

NextMap ==
    \/ \E h \in Handles : Assign(h)
    \/ \E h \in Senders : MapSendInsert(h)
    \/ \E h \in Senders : MapSendPanic(h)
    \/ \E k \in Keys : MapRecvVisit(Rx, k)
    \/ MapRecvPanic(Rx)
    \/ MapRecvCollect(Rx)

NextShared ==
    \/ \E h \in Senders, o \in SendOps, k \in Keys \cup {NoKey} : SendCall(h, o, k)
    \/ \E o \in RecvOps : RecvCall(o)
    \/ \E h \in Handles : Lock(h)
    \/ \E h \in Handles : TryLock(h)
    \/ \E h \in Handles : PoisonErr(h)
    \/ \E h, n \in Senders : Clone(h, n)
    \/ \E h \in Senders : DropSender(h)
    \/ DropReceiver

Next == NextValue \/ NextMap \/ NextShared

Spec == Init /\ [][Next]_vars

\* One variant at a time.
InitValue == Init /\ variant = "value"
InitMap == Init /\ variant = "map"
NextOfValue == NextValue \/ NextShared
NextOfMap == NextMap \/ NextShared
SpecValue == InitValue /\ [][NextOfValue]_vars
SpecMap == InitMap /\ [][NextOfMap]_vars

\* ================================================================== properties
\* A receive that took the unpoisoned lock returned in the step just taken.
RecvTook == ret.h = Rx /\ ret.how = "took"
Last(q) == q[Len(q)]

\* ------------------------------------------------------------------ C1
\* C1 (scalar overwrite): when a recv comes right after two or more successful
\* sends with no receive in between, it returns Ok with the value of the last of
\* them; and a value that a later send replaced while pending is never returned
\* by any receive.
C1_Overwrite ==
    /\ (variant = "value" /\ RecvTook /\ Len(ret.snap.pre) >= 2)
          => (ret.tag = "Ok" /\ ret.got = Some(Last(ret.snap.pre)))
    /\ variant = "value" => \A n \in overwritten : delivered[n] = 0

\* send(v1), send(v2), recv: the recv has just returned Ok.
C1_Witness ==
    /\ variant = "value" /\ RecvTook /\ Len(ret.snap.pre) >= 2 /\ ret.tag = "Ok"
    /\ ret.call.name = "recv" /\ overwritten # {}

\* ------------------------------------------------------------------ C2
\* The pairs a receive owes after the successful sends q: for every key sent
\* to, the value of the last send to it.
LastPerKey(q) ==
    {<<q[i].key, q[i]>> : i \in {j \in DOMAIN q : \A l \in (j + 1)..Len(q) : q[l].key # q[j].key}}
Pairs(b) == {b[i] : i \in DOMAIN b}

\* C2 (keyed, per-key last write wins): a recv that follows successful sends
\* with no receive in between returns exactly one pair for every key sent to,
\* carrying the value of the last send to that key, and nothing else.
C2_LastWriteWins ==
    (variant = "map" /\ RecvTook)
       => /\ ret.tag = "Ok"
          /\ Pairs(ret.vec) = LastPerKey(ret.snap.pre)
          /\ Len(ret.vec) = Cardinality(LastPerKey(ret.snap.pre))

\* Three sends to two keys (one key overwritten), then one recv returning both keys.
C2_Witness ==
    /\ variant = "map" /\ RecvTook /\ ret.call.name = "recv"
    /\ Len(ret.snap.pre) = 3 /\ Len(ret.vec) = 2

\* ------------------------------------------------------------------ C3
\* A receive of either kind returned in the step just taken.
RecvReturned == ret.h = Rx /\ ret.call.name \in RecvOps /\ ret.tag # "panic"

\* C3 as stated (scalar idempotent drain): once a receive has returned Ok(v), a
\* following recv or try_recv with no successful send in between returns
\* NoNewValue; no sent value is returned twice.
C3_Original ==
    /\ (variant = "value" /\ RecvReturned /\ ret.quiet) => ret.tag = "NoNewValue"
    /\ variant = "value" => \A n \in DOMAIN delivered : delivered[n] <= 1

\* C3 amended: ... returns NoNewValue, or, for try_recv while a send in progress
\* holds the lock, WouldBlock; no sent value is returned twice.
C3_IdempotentDrain ==
    /\ (variant = "value" /\ RecvReturned /\ ret.quiet)
          => \/ ret.tag = "NoNewValue"
             \/ ret.tag = "WouldBlock" /\ ret.call.name = "try_recv" /\ ret.how = "busy"
    /\ variant = "value" => \A n \in DOMAIN delivered : delivered[n] <= 1

\* recv returned Ok, no send since, and the next receive has just returned NoNewValue.
C3_Witness ==
    variant = "value" /\ RecvReturned /\ ret.quiet /\ ret.tag = "NoNewValue"

\* ------------------------------------------------------------------ C4
NoPending(m) == \A k \in DOMAIN m : ~IsSome(m[k])

\* C4 as stated (keyed "no update" is NoNewValue): a keyed recv or try_recv
\* that finds no key with a pending update returns the NoNewValue outcome.
C4_Original ==
    (variant = "map" /\ RecvTook /\ NoPending(ret.snap.found)) => ret.tag = "NoNewValue"

\* C4 amended: the keyed variant has no NoNewValue outcome.  A keyed recv or
\* try_recv that takes the lock and finds no key with a pending update (a fresh
\* channel, or a receive having returned a batch and no send having succeeded
\* since) returns Ok with an empty Vec.
C4_EmptyBatch ==
    /\ (variant = "map" /\ RecvTook /\ (NoPending(ret.snap.found) \/ ret.quiet))
          => (ret.tag = "Ok" /\ ret.vec = << >>)
    /\ (variant = "map" /\ ret.h = Rx) => ret.tag # "NoNewValue"

\* A receive returned a batch, no send succeeded since, and the next receive
\* has just returned the empty Vec.
C4_Witness ==
    variant = "map" /\ RecvTook /\ ret.quiet /\ ret.tag = "Ok" /\ ret.vec = << >>

\* ------------------------------------------------------------------ C5
\* A send of either kind returned in the step just taken.
SendReturned == ret.h \in Senders /\ ret.call.name \in SendOps /\ ret.tag # "panic"
HandedBack == ret.item = Item(ret.call.key, ret.call.id)

\* C5 (sender-side closed state): a send or try_send called after the Receiver
\* was dropped returns ChannelClosed carrying back the value (and key), never Ok.
C5_SenderClosed ==
    (SendReturned /\ ret.call.rxGone) => (ret.tag \in ClosedTags /\ HandedBack)

\* ------------------------------------------------------------------ C6
\* C6 (receiver-side closed state): a recv or try_recv called after every
\* Sender was dropped returns ChannelClosed, pending value or not.
C6_ReceiverClosed ==
    (RecvReturned /\ ret.call.noSenders) => ret.tag \in ClosedTags

\* ------------------------------------------------------------------ C7
\* h's try_lock() runs in this step and another operation holds the lock.
TryWhileHeld(h) ==
    /\ pc[h] = "lock" /\ op[h].name \in TryOps /\ pc'[h] # "lock"
    /\ holder \notin {NoOne, h}

\* C7 (non-blocking try operations): a try_send or try_recv at the lock can
\* always take its step; when the lock is held by another operation that step
\* returns WouldBlock, try_send's carrying back exactly its key and value, and
\* leaves the stored contents (and the lock) as they were.
C7_NonBlocking ==
    /\ [](\A h \in Handles :
             (h \in alive /\ pc[h] = "lock" /\ op[h].name \in TryOps) => ENABLED TryLock(h))
    /\ [][\A h \in Handles :
             TryWhileHeld(h)
                => /\ ret'.h = h /\ ret'.tag = "WouldBlock" /\ ret'.call = op[h]
                   /\ (op[h].name = "try_send" => ret'.item = Arg(h))
                   /\ slot' = slot /\ hmap' = hmap /\ holder' = holder]_vars

\* A try_send has just returned WouldBlock while a receive holds the lock.
C7_Witness ==
    /\ ret.tag = "WouldBlock" /\ ret.call.name = "try_send" /\ HandedBack
    /\ holder = Rx

\* ------------------------------------------------------------------ C8
\* An operation called after the lock was poisoned returned in the step just taken.
AfterPoison == ret.h # NoOne /\ ret.call.poisoned

\* C8 as stated (poisoned lock is terminal): every operation called once the
\* lock is poisoned returns ChannelClosed (a send's carrying back its value),
\* never NoNewValue, WouldBlock or a value.
C8_Original ==
    AfterPoison => (ret.tag \in ClosedTags /\ (ret.call.name \in SendOps => HandedBack))

\* C8 amended: every send and recv called once the lock is poisoned returns
\* ChannelClosed; every try_send and try_recv returns ChannelClosed, or
\* WouldBlock while another operation still holds the guard of the poisoned
\* lock; a send's error carries back its value; no step changes the stored
\* contents once the lock is poisoned.
C8_PoisonTerminal ==
    /\ [](AfterPoison
            => /\ \/ ret.tag \in ClosedTags
                  \/ ret.tag = "WouldBlock" /\ ret.call.name \in TryOps
               /\ (ret.call.name \in SendOps => HandedBack))
    /\ [][poisoned => (slot' = slot /\ hmap' = hmap /\ poisoned')]_vars

\* A recv called on a poisoned lock has just returned ChannelClosed with a
\* value still stored.
C8_Witness ==
    /\ AfterPoison /\ ret.call.name \in RecvOps /\ ret.tag \in ClosedTags
    /\ (IF variant = "value" THEN IsSome(slot) ELSE ~NoPending(hmap))

\* ------------------------------------------------------------------ C9
\* C9 (lock-order linearisation, scalar): a recv that takes the lock returns
\* the value of the send that took the lock last before it (NoNewValue if none
\* did since the previous receive), and that value whole: both words are those
\* of one send, never a mixture of two sends or a half-written value.
C9_LockOrder ==
    (variant = "value" /\ RecvTook)
       => /\ ret.snap.acqd # << >>
                => (ret.tag = "Ok" /\ ret.got = Some(Last(ret.snap.acqd).item))
          /\ ret.snap.acqd = << >> => ret.tag = "NoNewValue"
          /\ ret.tag = "Ok" => Whole(ret.got)

\* Two sends from different Sender clones were in progress together (one was
\* at the lock when the other took it), and the recv that followed has just
\* returned the value of the one that took the lock later.
C9_Witness ==
    /\ variant = "value" /\ RecvTook /\ ret.tag = "Ok" /\ Len(ret.snap.acqd) >= 2
    /\ LET q == ret.snap.acqd
           a == q[Len(q) - 1]
           b == q[Len(q)]
       IN a.h # b.h /\ b.item.id \in a.waiting /\ ret.got = Some(b.item)

\* ------------------------------------------------------------------ C10
Pending(m) == {k \in DOMAIN m : IsSome(m[k])}

\* C10 (keyed atomic batch): the Vec a keyed receive returns is exactly the keys
\* pending at the moment it took the lock, each once with the value it then
\* held; when it returns, the map is the one it found with every entry None:
\* no send took effect while it drained.
C10_AtomicBatch ==
    (variant = "map" /\ RecvTook)
       => LET f == ret.snap.found
          IN /\ Pairs(ret.vec) = {<<k, f[k].lo>> : k \in Pending(f)}
             /\ Len(ret.vec) = Cardinality(Pending(f))
             /\ ret.after = [k \in DOMAIN f |-> None]
             /\ hmap = ret.after

\* A receive has just returned two keys while a send is waiting at the lock.
C10_Witness ==
    /\ variant = "map" /\ RecvTook /\ Len(ret.vec) = 2
    /\ \E h \in Senders : pc[h] = "lock" /\ op[h].name = "send"
\* ------------------------------------------------------------------ C11
\* C11 (clones share one slot): cloning a Sender can be done whoever holds the
\* lock and never fails; the step changes neither the stored contents, the
\* lock, the poison nor any call in progress; and the value a recv returns is
\* that of the last successful send, whichever Sender (the original or a
\* clone) made it.
C11_ClonesShare ==
    /\ [](\A h, n \in Senders :
             (h \in alive /\ pc[h] = "idle" /\ n \notin alive) => ENABLED Clone(h, n))
    /\ [][\A n \in Senders :
             (n \notin alive /\ n \in alive')
                => /\ slot' = slot /\ hmap' = hmap /\ holder' = holder
                   /\ poisoned' = poisoned /\ pc' = pc /\ op' = op]_vars
    /\ []((variant = "value" /\ RecvTook /\ ret.snap.pre # << >>)
             => (ret.tag = "Ok" /\ ret.got = Some(Last(ret.snap.pre))))
    /\ []((variant = "map" /\ RecvTook)
             => LastPerKey(ret.snap.pre) \subseteq Pairs(ret.vec))

\* The original and its clone have both sent, the clone last (its send took
\* the lock last), and a recv has just returned the clone's value.
C11_Witness ==
    /\ variant = "value" /\ RecvTook /\ ret.tag = "Ok" /\ Len(ret.snap.pre) >= 2
    /\ LET q == ret.snap.acqd
       IN /\ Len(q) >= 2
          /\ q[Len(q)].h = "s2" /\ q[Len(q)].item = Last(ret.snap.pre)
          /\ ret.got = Some(q[Len(q)].item)
          /\ \E i \in DOMAIN q : q[i].h = "s1"

\* ------------------------------------------------------------------ C12
\* The strong references to the Mutex that exist: the Receiver's, the one in
\* the cell the Senders share, and the upgraded one of every call between its
\* `upgrade()` and its `*data_ptr = data`.
Held ==
    (IF Rx \in alive THEN 1 ELSE 0) + (IF alive \cap Senders # {} THEN 1 ELSE 0)
       + Cardinality({h \in Handles : pc[h] = "assign"})

LatestOnly ==
    IF variant = "value"
      THEN slot = (IF run = << >> THEN None ELSE Some(Last(run)))
      ELSE /\ {<<k, hmap[k].lo>> : k \in Pending(hmap)} = LastPerKey(run)
           /\ \A k \in Pending(hmap) : Whole(hmap[k])

Run(h) ==
    \/ ValueSendStore(h) \/ ValueSendDone(h) \/ ValueRecvTake(h)
    \/ Assign(h) \/ MapSendInsert(h) \/ MapRecvCollect(h)
    \/ \E k \in Keys : MapRecvVisit(h, k)
    \/ TryLock(h) \/ PoisonErr(h)

\* A thread inside a call keeps running, and the lock is handed out fairly: a
\* waiter that finds the lock free again and again gets it.
Fairness == \A h \in Handles : WF_vars(Run(h)) /\ SF_vars(Lock(h))
\* The fair behaviours are explored for calls of up to MaxFairSends sends (and
\* any number of receives).
MaxFairSends == 2
FairNext == Next /\ nextId' <= MaxFairSends + 1
FairSpec == Init /\ [][FairNext]_vars /\ Fairness

InCritical == {"crit", "store2", "perr"}

\* C14 (deadlock freedom): the holder of the lock is inside its critical
\* section, never waiting at lock() and never returned; it can always take its
\* next step (it waits for nothing); and under fair scheduling every send and
\* recv call in progress eventually returns.
C14_DeadlockFree ==
    /\ [](\A h \in Handles : (holder = h) <=> (pc[h] \in InCritical))
    /\ [](\A h \in Handles : holder = h => ENABLED Run(h))
    /\ \A h \in Handles :
          (pc[h] # "idle" /\ op[h].name \in {"send", "recv"}) ~> (pc[h] = "idle")

\* A send has just returned Ok that was waiting at lock() when the send of the
\* other Sender took the lock.
C14_Witness ==
    /\ variant = "value" /\ ret.tag = "Ok" /\ ret.call.name = "send"
    /\ \E i \in DOMAIN acq : acq[i].h # ret.h /\ ret.call.id \in acq[i].waiting

\* ------------------------------------------------------------------ C15
\* The scalar channel of value.rs driven by the sends q: every send stores
\* Some(t) over what is there.
RECURSIVE ScalarSends(_, _)
ScalarSends(s, q) ==
    IF q = << >> THEN s
                 ELSE ScalarSends(StoreHi(StoreLo(s, Head(q)), Head(q)), Tail(q))
\* The sends to key k among q, in order.
OfKey(q, k) == SelectSeq(q, LAMBDA t : t.key = k)

\* C15 (the keyed channel is a scalar channel per key): at every keyed receive
\* that takes the lock, for every key k, run value.rs's send over the
\* successful sends to k since the last receive and value.rs's recv on the
\* result: the batch holds (k, v) exactly when that recv gives Ok(v), it has
\* no pair for k exactly when that recv gives NoNewValue, and the entry left
\* for k is what the scalar take leaves.
C15_PerKeyScalar ==
    (variant = "map" /\ RecvTook)
       => \A k \in Keys :
             LET s == ScalarSends(None, OfKey(ret.snap.pre, k))
                 got == {p \in Pairs(ret.vec) : p[1] = k}
             IN /\ IsSome(s) => got = {<<k, s.lo>>} /\ Whole(s)
                /\ ~IsSome(s) => got = {}
                /\ Cardinality({i \in DOMAIN ret.vec : ret.vec[i][1] = k}) = Cardinality(got)
                /\ k \in DOMAIN ret.after => ret.after[k] = Take(s)

\* A receive has just returned key "a" with the later of two values sent to
\* it, and nothing for key "b", which was sent and received before.
C15_Witness ==
    /\ variant = "map" /\ RecvTook /\ Len(ret.vec) = 1 /\ ret.vec[1][1] = "a"
    /\ Len(OfKey(ret.snap.pre, "a")) = 2
    /\ "b" \in DOMAIN ret.after

\* ------------------------------------------------------------------ C16
\* A call at lock()/try_lock() goes on as soon as the lock is free, whatever is
\* stored; a send that took the unpoisoned lock and returns, returns Ok.
NoBackPressure ==
    /\ [](\A h \in Handles :
             (h \in alive /\ pc[h] = "lock" /\ Free) => ENABLED (Lock(h) \/ TryLock(h)))
    /\ [](\A h \in Handles : (pc[h] \in {"crit", "store2"}) => ENABLED Run(h))
    /\ [][\A h \in Senders :
             (pc[h] \in {"crit", "store2"} /\ pc'[h] = "idle" /\ ret'.tag # "panic")
                => (ret'.h = h /\ ret'.tag = "Ok")]_vars

\* A receive took the unpoisoned lock and found nothing pending.
RecvFoundNothing ==
    /\ RecvTook
    /\ IF variant = "value" THEN ret.snap.found = None ELSE NoPending(ret.snap.found)

\* C16 as stated (no back-pressure, no waiting for data): with the lock free
\* and not poisoned a send or try_send returns Ok whatever is pending, and a
\* recv or try_recv that finds nothing pending returns NoNewValue at once.
C16_Original ==
    /\ NoBackPressure
    /\ [](RecvFoundNothing => ret.tag = "NoNewValue")

\* C16 amended: ... and a recv or try_recv that finds nothing pending returns
\* at once: NoNewValue on the scalar channel, Ok with an empty Vec on the keyed
\* channel (which has no NoNewValue outcome).
C16_NoWaiting ==
    /\ NoBackPressure
    /\ [](RecvFoundNothing
             => IF variant = "value" THEN ret.tag = "NoNewValue"
                                     ELSE ret.tag = "Ok" /\ ret.vec = << >>)

\* A third send in a row with no receive in between has just returned Ok.
C16_Witness ==
    /\ ret.tag = "Ok" /\ ret.call.name \in SendOps /\ Len(run) = 3
    /\ variant = "value" /\ slot = Some(Item(NoKey, ret.call.id))

\* ------------------------------------------------------------------ C17
\* h is at an access to the stored value or map (inside the critical section).
AtStore(h) == pc[h] \in {"crit", "store2"}
\* h is at the write `*data_ptr = data` of the cell that all Sender clones
\* share (the Receiver's cell is its own).
AtCell(h) == h \in Senders /\ pc[h] = "assign"

\* C17 (all shared mutable state is lock-protected): a handle at an access to
\* the stored value or map holds the lock, and no two handles are at an access
\* to the same shared object (the store, the Senders' cell) at the same time.
C17_LockProtected ==
    /\ \A h \in Handles : AtStore(h) => holder = h
    /\ \A h, g \in Handles : (AtStore(h) /\ AtStore(g)) => h = g
    /\ \A h, g \in Handles : (AtCell(h) /\ AtCell(g)) => h = g

SentKey(r) == IF r.h \in Senders /\ r.tag = "Ok" THEN {r.call.key} ELSE {}

\* C19 (the keyed key set never shrinks): the map starts empty; every step
\* leaves the key set as it was, except the return of a successful send, which
\* adds its key: so the key set only grows and is the set of keys successfully
\* sent.  A receive returns exactly the keys it found pending and resets their
\* entries to None; the entries it found None stay None and are not returned;
\* no key is removed.
C19_KeysNeverShrink ==
    /\ [](nextId = 1 => DOMAIN hmap = {})
    /\ [][DOMAIN hmap' = DOMAIN hmap \cup SentKey(ret')]_vars
    /\ []((variant = "map" /\ RecvTook)
            => LET f == ret.snap.found
               IN /\ DOMAIN ret.after = DOMAIN f /\ DOMAIN hmap = DOMAIN f
                  /\ {p[1] : p \in Pairs(ret.vec)} = Pending(f)
                  /\ \A k \in DOMAIN f : ret.after[k] = None)

\* A receive found one key pending and one not, and has just returned the
\* first alone; both keys are still in the map.
C19_Witness ==
    /\ variant = "map" /\ RecvTook /\ Len(ret.vec) = 1
    /\ Cardinality(DOMAIN ret.snap.found) = 2 /\ DOMAIN hmap = Keys
    /\ NoPending(hmap)

\* ------------------------------------------------------------------ C20
\* The ids of the values in an Option (either word; 0 is no send's id).
IdsOf(s) == IF IsSome(s) THEN {s.lo.id, s.hi.id} \ {0} ELSE {}
\* The ids of the values stored whole, i.e. pending.
StoredWhole ==
    IF variant = "value" THEN (IF Whole(slot) THEN {slot.lo.id} ELSE {})
                         ELSE {hmap[k].lo.id : k \in {j \in DOMAIN hmap : Whole(hmap[j])}}
\* Every id that is stored (in whole or in part), collected, or recorded as
\* stored, replaced or delivered.
Known ==
    (IF variant = "value" THEN IdsOf(slot) ELSE UNION {IdsOf(hmap[k]) : k \in DOMAIN hmap})
       \cup {batch[i][2].id : i \in DOMAIN batch} \cup {run[i].id : i \in DOMAIN run}
       \cup overwritten \cup {n \in DOMAIN delivered : delivered[n] > 0}
\* The ids of the sends in progress.
InProgress == {op[h].id : h \in {g \in Senders : pc[g] # "idle"}}
\* The id of the send that has just returned Ok, if one has.
OkId(r) == IF r.h \in Senders /\ r.tag = "Ok" THEN {r.call.id} ELSE {}
\* What a receive that returned Ok returned, as a set of values.
Returned(r) == IF variant = "value" THEN {r.got.lo, r.got.hi} ELSE {p[2] : p \in Pairs(r.vec)}
\* The whole values pending in what a receive found.
FoundWhole(f) ==
    IF variant = "value" THEN (IF Whole(f) THEN {f.lo} ELSE {})
                         ELSE {f[k].lo : k \in {j \in DOMAIN f : Whole(f[j])}}

\* C20 (no fabrication, no duplication, no leaked failures): a receive returns
\* only values that were pending when it took the lock; a value becomes
\* pending only in the step in which its send returns Ok, and it is that
\* send's argument; no id is delivered twice; a send that returns WouldBlock or
\* ChannelClosed hands its argument back and that value is nowhere in the
\* storage or among the delivered; and a value enters the storage only from a
\* send in progress, whose id no earlier call had, so a value handed back is
\* never stored or received later.
C20_NoFabrication ==
    /\ []((RecvTook /\ ret.tag = "Ok") => Returned(ret) \subseteq FoundWhole(ret.snap.found))
    /\ [][/\ StoredWhole' \ StoredWhole \subseteq OkId(ret')
          /\ \A h \in Senders :
                (ret'.h = h /\ ret'.tag = "Ok")
                   => (ret'.call = op[h] /\ op[h].id \in StoredWhole' /\ Last(run') = Arg(h))]_vars
    /\ [](\A n \in DOMAIN delivered : delivered[n] <= 1)
    /\ [][\A h \in Senders :
             (ret'.h = h /\ ret'.tag \in ClosedTags \cup {"WouldBlock"})
                => (ret'.item = Arg(h) /\ op[h].id \notin Known \cup Known')]_vars
    /\ [][/\ Known' \ Known \subseteq InProgress
          /\ InProgress' \ InProgress \subseteq {nextId}
          /\ nextId' >= nextId]_vars
    /\ [](\A n \in Known \cup InProgress : n < nextId)

\* Two sends were handed back (neither stored nor delivered), the third
\* returned Ok, and a receive has just returned the third value alone.
C20_Witness ==
    /\ RecvTook /\ ret.tag = "Ok" /\ {t.id : t \in Returned(ret)} = {3}
    /\ delivered[1] = 0 /\ delivered[2] = 0 /\ overwritten = {}
    /\ Len(ret.snap.pre) = 1 /\ ~poisoned

====
